---- MODULE Spec2Model ----
(***************************************************************************)
(* Model of the uiautomator selector layer: the selector compiler          *)
(* (parseSelector, _MASK), the Element handle and its navigation, query    *)
(* and interaction operations, and the RPC calls each operation issues.    *)
(***************************************************************************)
EXTENDS Integers, Sequences, FiniteSets, TLC

VARIABLES
  craw,        \* SpecCompile: the raw selector handed to the compiler
  cres,        \* SpecCompile: the results of its successive compilations
  ele,         \* the Element handle: original and selector
  last,        \* the last operation: its name, what it returned, the RPC calls it issued
  created,     \* history: the raw selector the Element was created from
  eqs,         \* history: the indices of the Eq calls since creation
  pure,        \* history: only Eq has been called on the Element since creation
  uid,         \* history: id of the latest successful child-by lookup not followed by an Eq
  everUid,     \* history: a child-by lookup has succeeded on the Element
  afterChildBy \* history: the operation before the last one was a successful child-by lookup

vars == <<craw, cres, ele, last, created, eqs, pure, uid, everUid, afterChildBy>>

(***************************************************************************)
(* Bounds of the model.                                                    *)
(***************************************************************************)
\* largest number of keys of a raw selector given to the compiler
MaxKeys == 2
\* number of Eq calls recorded after the creation of an Element
MaxEqs == 2

\* attribute values a caller supplies (also the indices given to Eq)
AttrValues == {0, 1}

(***************************************************************************)
(* The attribute vocabulary and its bit codes.                             *)
(***************************************************************************)
_MASK ==
  [ text                  |-> 1,
    textContains          |-> 2,
    textMatches           |-> 4,
    textStartsWith        |-> 8,
    className             |-> 16,
    classNameMatches      |-> 32,
    description           |-> 64,
    descriptionContains   |-> 128,
    descriptionMatches    |-> 256,
    descriptionStartsWith |-> 512,
    checkable             |-> 1024,
    checked               |-> 2048,
    clickable             |-> 4096,
    longClickable         |-> 8192,
    scrollable            |-> 16384,
    enabled               |-> 32768,
    focusable             |-> 65536,
    focused               |-> 131072,
    selected              |-> 262144,
    packageName           |-> 524288,
    packageNameMatches    |-> 1048576,
    resourceId            |-> 2097152,
    resourceIdMatches     |-> 4194304,
    index                 |-> 8388608,
    instance              |-> 16777216 ]

\* names a caller may write that the vocabulary does not hold
ForeignKeys == {"mask", "childOrSibling", "childOrSiblingSelector", "__UID", "bogus"}

\* Go's | on non-negative ints
RECURSIVE BitOr(_, _)
BitOr(a, b) ==
  IF a = 0 THEN b
  ELSE IF b = 0 THEN a
  ELSE (IF a % 2 = 1 \/ b % 2 = 1 THEN 1 ELSE 0) + 2 * BitOr(a \div 2, b \div 2)

\* error values: nil, fmt.Errorf("Invalid selector: %v", selector), &UiaError{...},
\* and the error a failed RPC call returns
\* (subject is the value the message echoes)
NilErr == [type |-> "nil", code |-> 0, message |-> "", subject |-> <<>>]
InvalidSelectorErr(selector) ==
  [type |-> "errorString", code |-> 0, message |-> "Invalid selector: %v", subject |-> selector]

\* parseLoop storing the code of the key instead of OR-ing it into the mask
RECURSIVE parseLoopOverwrite(_, _, _, _)
parseLoopOverwrite(selector, order, i, res) ==
  IF i > Len(order) THEN [res |-> res, err |-> NilErr]
  ELSE LET k == order[i] IN
       IF k \in DOMAIN _MASK
       THEN parseLoopOverwrite(selector, order, i + 1,
                               (k :> selector[k]) @@ [res EXCEPT !["mask"] = _MASK[k]])
       ELSE [res |-> res, err |-> InvalidSelectorErr(selector)]

\* parseLoop skipping a key outside the vocabulary instead of failing
RECURSIVE parseLoopSkip(_, _, _, _)
parseLoopSkip(selector, order, i, res) ==
  IF i > Len(order) THEN [res |-> res, err |-> NilErr]
  ELSE LET k == order[i] IN
       IF k \in DOMAIN _MASK
       THEN parseLoopSkip(selector, order, i + 1,
                          (k :> selector[k]) @@
                          [res EXCEPT !["mask"] = BitOr(res["mask"], _MASK[k])])
       ELSE parseLoopSkip(selector, order, i + 1, res)

\* the loop of parseSelector over the keys of selector, visited in the order
\* order (Go leaves the iteration order of a map unspecified)
RECURSIVE parseLoop(_, _, _, _)
parseLoop(selector, order, i, res) ==
  IF i > Len(order) THEN [res |-> res, err |-> NilErr]
  ELSE LET k == order[i] IN
       IF k \in DOMAIN _MASK
       THEN parseLoop(selector, order, i + 1,
                      (k :> selector[k]) @@
                      [res EXCEPT !["mask"] = BitOr(res["mask"], _MASK[k])])
       ELSE [res |-> res, err |-> InvalidSelectorErr(selector)]

parseSelector(selector, order) ==
  parseLoop(selector, order, 1,
            [mask |-> 0, childOrSibling |-> <<>>, childOrSiblingSelector |-> <<>>])

\* the orders in which a map with key set S can be iterated
Orders(S) ==
  {o \in [1..Cardinality(S) -> S] : \A i, j \in 1..Cardinality(S) : i # j => o[i] # o[j]}

\* the subsets of K with at most n elements
RECURSIVE SubsetsUpTo(_, _)
SubsetsUpTo(K, n) ==
  IF n = 0 THEN {{}}
  ELSE LET P == SubsetsUpTo(K, n - 1) IN P \cup {T \cup {k} : T \in P, k \in K}

\* the raw selectors with at most n keys, key k taking its value in V[k]
RawSelectors(V, n) ==
  UNION {{f \in [S -> UNION {V[k] : k \in S}] : \A k \in S : f[k] \in V[k]} :
           S \in SubsetsUpTo(DOMAIN V, n)}

(***************************************************************************)
(* Values exchanged with the RPC client.                                   *)
(***************************************************************************)
WaitTimeout == 20000
NotFoundCode == 0 - 32002

UiaError(code, message) ==
  [type |-> "UiaError", code |-> code, message |-> message, subject |-> <<>>]
\* the error of a failed RPC call (network, decode)
PostErr == [type |-> "postError", code |-> 0, message |-> "rpc failed", subject |-> <<>>]
\* a nil pointer dereference ends the operation with a run-time panic
PanicErr ==
  [type |-> "panic", code |-> 0, message |-> "nil pointer dereference", subject |-> <<>>]

\* an interface{} parameter of an RPC call, with its dynamic type
Param(kind, val) == [kind |-> kind, val |-> val]

\* getParams without the __UID case
getParamsMap(selector) == Param("map", selector)

getParams(selector) ==
  IF "__UID" \in DOMAIN selector
  THEN Param("string", selector["__UID"])
  ELSE Param("map", selector)

\* one round trip of the RPC client: the call and the response it decoded
post(method, params, resp) == [method |-> method, params |-> params, resp |-> resp]

Response(err, result) == [err |-> err, result |-> result]

UIDs == {"u1", "u2"}
Keywords == {"Clock"}
Texts == {"hello"}
Counts == {0, 2}

NilRect == [nil |-> TRUE, left |-> 0, top |-> 0, right |-> 0, bottom |-> 0]
Rect(l, t, r, b) == [nil |-> FALSE, left |-> l, top |-> t, right |-> r, bottom |-> b]
NoInfo == [bounds |-> NilRect, visibleBounds |-> NilRect]

WaitResponses ==
  {Response(PostErr, FALSE), Response(NilErr, FALSE), Response(NilErr, TRUE)}
InfoResponses(R) ==
  {Response(PostErr, NoInfo)} \cup
  {Response(NilErr, [bounds |-> b, visibleBounds |-> v]) :
     b \in R \cup {NilRect}, v \in R \cup {NilRect}}
CountResponses == {Response(PostErr, 0)} \cup {Response(NilErr, n) : n \in Counts}
UidResponses == {Response(PostErr, "")} \cup {Response(NilErr, u) : u \in UIDs}
TextResponses == {Response(PostErr, "")} \cup {Response(NilErr, t) : t \in Texts}
VoidResponses == {Response(PostErr, "none"), Response(NilErr, "none")}

(***************************************************************************)
(* Geometry: Go's integer division and the int -> float32 conversion.      *)
(***************************************************************************)
\* GoDiv rounding toward minus infinity
GoDivFloor(a, b) == a \div b

\* Go's / on ints truncates toward zero (b > 0)
GoDiv(a, b) == IF a >= 0 THEN a \div b ELSE 0 - ((0 - a) \div b)

\* the spacing of the float32 values around m >= 0 (24-bit significand)
RECURSIVE F32Quantum(_)
F32Quantum(m) == IF m < 16777216 THEN 1 ELSE 2 * F32Quantum(m \div 2)

\* float32(n) for an int n: round to nearest, ties to even
F32(n) ==
  LET m   == IF n >= 0 THEN n ELSE 0 - n
      q   == F32Quantum(m)
      lo  == (m \div q) * q
      rem == m - lo
      r   == IF 2 * rem < q THEN lo
             ELSE IF 2 * rem > q THEN lo + q
             ELSE IF (lo \div q) % 2 = 0 THEN lo ELSE lo + q
  IN IF n >= 0 THEN r ELSE 0 - r

\* a Position whose float32 coordinates are whole numbers
Position(x, y) == [unit |-> "1", X |-> x, Y |-> y]
\* a Position whose float32 coordinates are given in quarters
Position4(x4, y4) == [unit |-> "1/4", X |-> x4, Y |-> y4]
NoPosition == Position(0, 0)

\* the offsets a caller passes to Center and Click, in quarters: nil and (0.25, 0.75)
NilOffset == [nil |-> TRUE, X |-> 0, Y |-> 0]
Offsets == {NilOffset, [nil |-> FALSE, X |-> 1, Y |-> 3]}

(***************************************************************************)
(* The session-level calls Click, LongClick and Swipe of the UIAutomator   *)
(* client: one RPC call each.                                              *)
(***************************************************************************)
uaClick(abs, resp) ==
  [rpcs |-> <<post("click", <<Param("position", abs)>>, resp)>>, err |-> resp.err]
uaLongClick(abs, duration, resp) ==
  [rpcs |-> <<post("longClick", <<Param("position", abs), Param("int", duration)>>, resp)>>,
   err |-> resp.err]
uaSwipe(from, to, duration, resp) ==
  [rpcs |-> <<post("swipe", <<Param("position", from), Param("position", to),
                              Param("float", duration)>>, resp)>>,
   err |-> resp.err]

(***************************************************************************)
(* The query and interaction operations of an Element, as functions of the *)
(* compiled selector and of the responses of the server.                   *)
(***************************************************************************)
GetInfo(sel, ri) ==
  [rpcs |-> <<post("objInfo", <<getParams(sel)>>, ri)>>, err |-> ri.err, info |-> ri.result]

\* GetRect fetching the info once for each of the two rectangles
GetRectTwice(sel, ri) ==
  LET g == GetInfo(sel, ri) IN
  [rpcs |-> g.rpcs \o g.rpcs, err |-> g.err,
   rect |-> IF g.err # NilErr THEN NilRect
            ELSE IF ~g.info.bounds.nil THEN g.info.bounds ELSE g.info.visibleBounds]

GetRect(sel, ri) ==
  LET g == GetInfo(sel, ri) IN
  [rpcs |-> g.rpcs, err |-> g.err,
   rect |-> IF g.err # NilErr THEN NilRect
            ELSE IF ~g.info.bounds.nil THEN g.info.bounds ELSE g.info.visibleBounds]

Center(sel, offset, ri) ==
  LET g == GetRect(sel, ri)
      o == IF offset.nil THEN [nil |-> FALSE, X |-> 2, Y |-> 2] ELSE offset
      width == g.rect.right - g.rect.left
      height == g.rect.bottom - g.rect.top
  IN IF g.err # NilErr THEN [rpcs |-> g.rpcs, err |-> g.err, abs |-> NoPosition]
     ELSE IF g.rect.nil THEN [rpcs |-> g.rpcs, err |-> PanicErr, abs |-> NoPosition]
     ELSE [rpcs |-> g.rpcs, err |-> NilErr,
           abs |-> Position4(4 * F32(g.rect.left) + F32(width) * o.X,
                             4 * F32(g.rect.top) + F32(height) * o.Y)]

Count(sel, rc) ==
  [rpcs |-> <<post("count", <<getParams(sel)>>, rc)>>, err |-> rc.err]

\* WaitForExists returning the error of the call when the call fails
WaitForExistsPropagate(sel, rw) ==
  LET c == post("waitForExists", <<getParams(sel), Param("int", WaitTimeout)>>, rw) IN
  [rpcs |-> <<c>>,
   err |-> IF c.resp.err # NilErr THEN c.resp.err
           ELSE IF c.resp.result = FALSE THEN UiaError(NotFoundCode, "Element not found")
           ELSE NilErr]

WaitForExists(sel, rw) ==
  LET c == post("waitForExists", <<getParams(sel), Param("int", WaitTimeout)>>, rw) IN
  [rpcs |-> <<c>>,
   err |-> IF c.resp.err # NilErr \/ c.resp.result = FALSE
           THEN UiaError(NotFoundCode, "Element not found")
           ELSE NilErr]

swipe(sel, direction, rw, ri, rs) ==
  LET w  == WaitForExists(sel, rw)
      g  == GetRect(sel, ri)
      lx == g.rect.left
      ly == g.rect.top
      rx == g.rect.right
      ry == g.rect.bottom
      cx == GoDiv(lx + rx, 2)
      cy == GoDiv(ly + ry, 2)
      from == Position(F32(cx), F32(cy))
      to == CASE direction = "up"    -> Position(F32(cx), F32(ly))
              [] direction = "down"  -> Position(F32(cx), F32(ry - 1))
              [] direction = "left"  -> Position(F32(lx), F32(cy))
              [] direction = "right" -> Position(F32(rx - 1), F32(cy))
      s  == uaSwipe(from, to, "0.1", rs)
  IN IF w.err # NilErr THEN [rpcs |-> w.rpcs, err |-> w.err]
     ELSE IF g.err # NilErr THEN [rpcs |-> w.rpcs \o g.rpcs, err |-> g.err]
     ELSE IF g.rect.nil THEN [rpcs |-> w.rpcs \o g.rpcs, err |-> PanicErr]
     ELSE [rpcs |-> w.rpcs \o g.rpcs \o s.rpcs, err |-> s.err]

\* Click going on after a failed WaitForExists
ClickNoAbort(sel, offset, rw, ri, rc) ==
  LET w == WaitForExists(sel, rw)
      c == Center(sel, offset, ri)
      t == uaClick(c.abs, rc)
  IN IF c.err # NilErr THEN [rpcs |-> w.rpcs \o c.rpcs, err |-> c.err]
     ELSE [rpcs |-> w.rpcs \o c.rpcs \o t.rpcs, err |-> t.err]

Click(sel, offset, rw, ri, rc) ==
  LET w == WaitForExists(sel, rw)
      c == Center(sel, offset, ri)
      t == uaClick(c.abs, rc)
  IN IF w.err # NilErr THEN [rpcs |-> w.rpcs, err |-> w.err]
     ELSE IF c.err # NilErr THEN [rpcs |-> w.rpcs \o c.rpcs, err |-> c.err]
     ELSE [rpcs |-> w.rpcs \o c.rpcs \o t.rpcs, err |-> t.err]

LongClick(sel, rw, ri, rc) ==
  LET w == WaitForExists(sel, rw)
      c == Center(sel, NilOffset, ri)
      t == uaLongClick(c.abs, 0, rc)
  IN IF w.err # NilErr THEN [rpcs |-> w.rpcs, err |-> w.err]
     ELSE IF c.err # NilErr THEN [rpcs |-> w.rpcs \o c.rpcs, err |-> c.err]
     ELSE [rpcs |-> w.rpcs \o c.rpcs \o t.rpcs, err |-> t.err]

GetText(sel, rw, rt) ==
  LET w == WaitForExists(sel, rw) IN
  IF w.err # NilErr THEN [rpcs |-> w.rpcs, err |-> w.err]
  ELSE [rpcs |-> w.rpcs \o <<post("getText", <<getParams(sel)>>, rt)>>, err |-> rt.err]

SetText(sel, text, rw, rv) ==
  LET w == WaitForExists(sel, rw) IN
  IF w.err # NilErr THEN [rpcs |-> w.rpcs, err |-> w.err]
  ELSE [rpcs |-> w.rpcs \o <<post("setText", <<getParams(sel), Param("string", text)>>, rv)>>,
        err |-> rv.err]

ClearText(sel, rw, rv) ==
  LET w == WaitForExists(sel, rw) IN
  IF w.err # NilErr THEN [rpcs |-> w.rpcs, err |-> w.err]
  ELSE [rpcs |-> w.rpcs \o <<post("clearTextField", <<getParams(sel)>>, rv)>>, err |-> rv.err]

(***************************************************************************)
(* The Element handle and its navigation operations.  An operation gives   *)
(* the Element as it leaves it, its error, whether it returns the Element  *)
(* (a nil *Element otherwise), and the RPC calls it issued.                *)
(***************************************************************************)
NoElement == [live |-> FALSE, original |-> <<>>, selector |-> <<>>]

GetElementBySelector(selector, order) ==
  LET p == parseSelector(selector, order) IN
  IF p.err # NilErr
  THEN [ele |-> NoElement, err |-> p.err, elem |-> FALSE, rpcs |-> <<>>]
  ELSE [ele |-> [live |-> TRUE, original |-> selector, selector |-> p.res],
        err |-> NilErr, elem |-> TRUE, rpcs |-> <<>>]

\* Eq keeping an instance the original already holds
EqKeepInstance(e, index, order) ==
  LET orig == e.original @@ ("instance" :> index)
      recompile == parseSelector(orig, order)
  IN IF recompile.err # NilErr
     THEN [ele |-> [e EXCEPT !.original = orig],
           err |-> recompile.err, elem |-> FALSE, rpcs |-> <<>>]
     ELSE [ele |-> [e EXCEPT !.original = orig, !.selector = recompile.res],
           err |-> NilErr, elem |-> TRUE, rpcs |-> <<>>]

\* Eq compiling a copy of the original and leaving the original as it was
EqSelectorOnly(e, index, order) ==
  LET orig == ("instance" :> index) @@ e.original
      recompile == parseSelector(orig, order)
  IN IF recompile.err # NilErr
     THEN [ele |-> e, err |-> recompile.err, elem |-> FALSE, rpcs |-> <<>>]
     ELSE [ele |-> [e EXCEPT !.selector = recompile.res],
           err |-> NilErr, elem |-> TRUE, rpcs |-> <<>>]

Eq(e, index, order) ==
  LET orig == ("instance" :> index) @@ e.original
      recompile == parseSelector(orig, order)
  IN IF recompile.err # NilErr
     THEN [ele |-> [e EXCEPT !.original = orig],
           err |-> recompile.err, elem |-> FALSE, rpcs |-> <<>>]
     ELSE [ele |-> [e EXCEPT !.original = orig, !.selector = recompile.res],
           err |-> NilErr, elem |-> TRUE, rpcs |-> <<>>]

Child(e, selector, order) ==
  LET p == parseSelector(selector, order) IN
  IF p.err # NilErr
  THEN [ele |-> e, err |-> p.err, elem |-> FALSE, rpcs |-> <<>>]
  ELSE [ele |-> [e EXCEPT !.selector = ("childOrSibling" :> <<"child">>) @@
                                       ("childOrSiblingSelector" :> <<p.res>>) @@ @],
        err |-> NilErr, elem |-> TRUE, rpcs |-> <<>>]

Sibling(e, selector, order) ==
  LET p == parseSelector(selector, order) IN
  IF p.err # NilErr
  THEN [ele |-> e, err |-> p.err, elem |-> FALSE, rpcs |-> <<>>]
  ELSE [ele |-> [e EXCEPT !.selector = ("childOrSibling" :> <<"sibling">>) @@
                                       ("childOrSiblingSelector" :> <<p.res>>) @@ @],
        err |-> NilErr, elem |-> TRUE, rpcs |-> <<>>]

childByMethod(e, keywords, method, selector, order, resp) ==
  LET p == parseSelector(selector, order)
      c == post(method, <<Param("map", e.selector), Param("map", p.res),
                          Param("string", keywords), Param("bool", TRUE)>>, resp)
  IN IF p.err # NilErr
     THEN [ele |-> e, err |-> p.err, elem |-> FALSE, rpcs |-> <<>>]
     ELSE IF resp.err # NilErr
     THEN [ele |-> e, err |-> resp.err, elem |-> FALSE, rpcs |-> <<c>>]
     ELSE [ele |-> [e EXCEPT !.selector = [__UID |-> resp.result]],
           err |-> NilErr, elem |-> TRUE, rpcs |-> <<c>>]

ChildByText(e, keywords, selector, order, resp) ==
  childByMethod(e, keywords, "childByText", selector, order, resp)

ChildByDescription(e, keywords, selector, order, resp) ==
  childByMethod(e, keywords, "childByDescription", selector, order, resp)

(***************************************************************************)
(* The state machine: a caller holding one Element handle calls its        *)
(* operations one after the other; every call runs to its return.          *)
(***************************************************************************)
ChildByOps == {"ChildByText", "ChildByDescription"}
NoValue == Param("none", "none")

NoOp == [op |-> "none", err |-> NilErr, elem |-> FALSE, rpcs |-> <<>>,
         value |-> NoValue, uidBefore |-> "none"]

\* the return of operation op with outcome r
Return(op, r, value) ==
  /\ last' = [op |-> op, err |-> r.err, elem |-> r.elem, rpcs |-> r.rpcs,
              value |-> value, uidBefore |-> uid]
  /\ afterChildBy' = (last.op \in ChildByOps /\ last.err = NilErr)

\* the return of a query or interaction operation: the Element is left as it is
Answer(op, r, value) ==
  /\ Return(op, [err |-> r.err, elem |-> FALSE, rpcs |-> r.rpcs], value)
  /\ UNCHANGED <<craw, cres, ele, created, eqs, pure, uid, everUid>>

CallGetElementBySelector(Raws) ==
  \E selector \in Raws : \E order \in Orders(DOMAIN selector) :
    LET r == GetElementBySelector(selector, order) IN
    /\ Return("GetElementBySelector", r, NoValue)
    /\ IF r.elem
       THEN /\ ele' = r.ele
            /\ created' = selector
            /\ eqs' = <<>>
            /\ pure' = TRUE
            /\ uid' = "none"
            /\ everUid' = FALSE
       ELSE UNCHANGED <<ele, created, eqs, pure, uid, everUid>>
    /\ UNCHANGED <<craw, cres>>

CallEq ==
  /\ ele.live
  /\ pure => Len(eqs) < MaxEqs
  /\ \E index \in AttrValues : \E order \in Orders(DOMAIN ele.original \cup {"instance"}) :
       LET r == Eq(ele, index, order) IN
       /\ Return("Eq", r, NoValue)
       /\ ele' = r.ele
       /\ eqs' = IF pure THEN Append(eqs, index) ELSE eqs
       /\ uid' = IF r.elem THEN "none" ELSE uid
       /\ UNCHANGED <<craw, cres, created, pure, everUid>>

\* Child and Sibling end the history of an Element on which only Eq was called
Related(op, r) ==
  /\ Return(op, r, NoValue)
  /\ ele' = r.ele
  /\ pure' = FALSE
  /\ eqs' = <<>>
  /\ created' = <<>>

CallChild(Raws) ==
  /\ ele.live
  /\ \E selector \in Raws : \E order \in Orders(DOMAIN selector) :
       Related("Child", Child(ele, selector, order))
  /\ UNCHANGED <<craw, cres, uid, everUid>>

CallSibling(Raws) ==
  /\ ele.live
  /\ \E selector \in Raws : \E order \in Orders(DOMAIN selector) :
       Related("Sibling", Sibling(ele, selector, order))
  /\ UNCHANGED <<craw, cres, uid, everUid>>

CallChildByText(Raws) ==
  /\ ele.live
  /\ \E selector \in Raws : \E order \in Orders(DOMAIN selector) :
     \E keywords \in Keywords : \E resp \in UidResponses :
       LET r == ChildByText(ele, keywords, selector, order, resp) IN
       /\ Related("ChildByText", r)
       /\ uid' = IF r.elem THEN resp.result ELSE uid
       /\ everUid' = (everUid \/ r.elem)
  /\ UNCHANGED <<craw, cres>>

CallChildByDescription(Raws) ==
  /\ ele.live
  /\ \E selector \in Raws : \E order \in Orders(DOMAIN selector) :
     \E keywords \in Keywords : \E resp \in UidResponses :
       LET r == ChildByDescription(ele, keywords, selector, order, resp) IN
       /\ Related("ChildByDescription", r)
       /\ uid' = IF r.elem THEN resp.result ELSE uid
       /\ everUid' = (everUid \/ r.elem)
  /\ UNCHANGED <<craw, cres>>

CallGetInfo(Infos) ==
  /\ ele.live
  /\ \E ri \in Infos : Answer("GetInfo", GetInfo(ele.selector, ri), NoValue)

CallGetRect(Infos) ==
  /\ ele.live
  /\ \E ri \in Infos :
       LET r == GetRect(ele.selector, ri) IN Answer("GetRect", r, Param("rect", r.rect))

CallCenter(Infos) ==
  /\ ele.live
  /\ \E ri \in Infos : \E offset \in Offsets :
       LET r == Center(ele.selector, offset, ri) IN Answer("Center", r, Param("position", r.abs))

\* Count and GetText return RPCReturned.Result beside the call of post that sets it;
\* Go does not order the read of the variable and the call, so the value returned
\* is the zero value or the decoded result
CallCount ==
  /\ ele.live
  /\ \E rc \in CountResponses : \E v \in {0, rc.result} :
       Answer("Count", Count(ele.selector, rc), Param("int", v))

CallWaitForExists ==
  /\ ele.live
  /\ \E rw \in WaitResponses : Answer("WaitForExists", WaitForExists(ele.selector, rw), NoValue)

\* the exported wrapper of swipe(direction)
SwipeName(direction) ==
  CASE direction = "up"    -> "SwipeUp"
    [] direction = "down"  -> "SwipeDown"
    [] direction = "left"  -> "SwipeLeft"
    [] direction = "right" -> "SwipeRight"

CallSwipe(direction, Infos) ==
  /\ ele.live
  /\ \E rw \in WaitResponses : \E ri \in Infos : \E rs \in VoidResponses :
       Answer(SwipeName(direction), swipe(ele.selector, direction, rw, ri, rs), NoValue)

CallSwipeUp(Infos) == CallSwipe("up", Infos)
CallSwipeDown(Infos) == CallSwipe("down", Infos)
CallSwipeLeft(Infos) == CallSwipe("left", Infos)
CallSwipeRight(Infos) == CallSwipe("right", Infos)

CallClick(Infos) ==
  /\ ele.live
  /\ \E offset \in Offsets : \E rw \in WaitResponses : \E ri \in Infos : \E rc \in VoidResponses :
       Answer("Click", Click(ele.selector, offset, rw, ri, rc), NoValue)

CallLongClick(Infos) ==
  /\ ele.live
  /\ \E rw \in WaitResponses : \E ri \in Infos : \E rc \in VoidResponses :
       Answer("LongClick", LongClick(ele.selector, rw, ri, rc), NoValue)

CallGetText ==
  /\ ele.live
  /\ \E rw \in WaitResponses : \E rt \in TextResponses :
       LET r == GetText(ele.selector, rw, rt) IN
       \E v \in {"", IF Len(r.rpcs) = 2 THEN rt.result ELSE ""} :
         Answer("GetText", r, Param("string", v))

CallSetText ==
  /\ ele.live
  /\ \E text \in Texts : \E rw \in WaitResponses : \E rv \in VoidResponses :
       Answer("SetText", SetText(ele.selector, text, rw, rv), NoValue)

CallClearText ==
  /\ ele.live
  /\ \E rw \in WaitResponses : \E rv \in VoidResponses :
       Answer("ClearText", ClearText(ele.selector, rw, rv), NoValue)

(***************************************************************************)
(* Spec: creation and navigation of an Element.                            *)
(***************************************************************************)
NavRaws ==
  RawSelectors([k \in {"text", "instance", "__UID"} |->
                  IF k = "instance" THEN AttrValues ELSE {0}], MaxKeys)

InitElement ==
  /\ last = NoOp
  /\ created = <<>>
  /\ eqs = <<>>
  /\ pure = FALSE
  /\ uid = "none"
  /\ everUid = FALSE
  /\ afterChildBy = FALSE

Init ==
  /\ InitElement
  /\ ele = NoElement
  /\ craw = <<>>
  /\ cres = <<>>

Next ==
  \/ CallGetElementBySelector(NavRaws)
  \/ CallEq
  \/ CallChild(NavRaws)
  \/ CallSibling(NavRaws)
  \/ CallChildByText(NavRaws)
  \/ CallChildByDescription(NavRaws)

Spec == Init /\ [][Next]_vars

(***************************************************************************)
(* SpecOps: the query and interaction operations, on an Element as created *)
(* or as resolved by a child-by lookup.                                    *)
(***************************************************************************)
OpsRaws == RawSelectors([k \in {"text", "bogus"} |-> {0}], 1)
OpsInfos == InfoResponses({Rect(10, 20, 30, 40)})

NextOps ==
  \/ CallGetElementBySelector(OpsRaws)
  \/ CallChildByText(OpsRaws)
  \/ CallChildByDescription(OpsRaws)
  \/ CallGetInfo(OpsInfos)
  \/ CallGetRect(OpsInfos)
  \/ CallCenter(OpsInfos)
  \/ CallCount
  \/ CallWaitForExists
  \/ CallSwipeUp(OpsInfos)
  \/ CallSwipeDown(OpsInfos)
  \/ CallSwipeLeft(OpsInfos)
  \/ CallSwipeRight(OpsInfos)
  \/ CallClick(OpsInfos)
  \/ CallLongClick(OpsInfos)
  \/ CallGetText
  \/ CallSetText
  \/ CallClearText

SpecOps == Init /\ [][NextOps]_vars

(***************************************************************************)
(* SpecSwipe: one swipe of a created Element, over the rectangles the      *)
(* server may return.                                                      *)
(***************************************************************************)
\* coordinates: negative, zero, the example's, and one past 2^24
CoordSamples == {0 - 7, 0, 10, 20, 30, 40, 16777217}
SwipeRects == {Rect(l, t, r, b) : l, t, r, b \in CoordSamples}
SwipeInfos ==
  {Response(NilErr, [bounds |-> b, visibleBounds |-> NilRect]) : b \in SwipeRects} \cup
  {Response(NilErr, [bounds |-> NilRect, visibleBounds |-> v]) : v \in SwipeRects}

InitSwipe ==
  /\ InitElement
  /\ craw = <<>>
  /\ cres = <<>>
  /\ \E selector \in OpsRaws : \E order \in Orders(DOMAIN selector) :
       /\ GetElementBySelector(selector, order).elem
       /\ ele = GetElementBySelector(selector, order).ele

NextSwipe ==
  /\ last.op = "none"
  /\ \/ CallSwipeUp(SwipeInfos)
     \/ CallSwipeDown(SwipeInfos)
     \/ CallSwipeLeft(SwipeInfos)
     \/ CallSwipeRight(SwipeInfos)

SpecSwipe == InitSwipe /\ [][NextSwipe]_vars

(***************************************************************************)
(* SpecCompile: one raw selector compiled MaxCompiles times.               *)
(***************************************************************************)
CompileRaws ==
  RawSelectors([k \in DOMAIN _MASK \cup ForeignKeys |->
                  IF k = "instance" THEN AttrValues ELSE {0}], MaxKeys)

\* the Element the caller holds, created from {text: 0}
InitCompile ==
  /\ InitElement
  /\ ele = GetElementBySelector([text |-> 0], <<"text">>).ele
  /\ craw \in CompileRaws
  /\ cres = <<>>

\* craw is compiled, twice
Compile ==
  /\ last.op = "none"
  /\ Len(cres) < 2
  /\ \E order \in Orders(DOMAIN craw) : cres' = Append(cres, parseSelector(craw, order))
  /\ UNCHANGED <<craw, ele, last, created, eqs, pure, uid, everUid, afterChildBy>>

\* or craw is given to one of the operations that take a raw selector
NextCompile ==
  \/ Compile
  \/ /\ last.op = "none"
     /\ cres = <<>>
     /\ \/ CallGetElementBySelector({craw})
        \/ CallChild({craw})
        \/ CallSibling({craw})
        \/ CallChildByText({craw})
        \/ CallChildByDescription({craw})

SpecCompile == InitCompile /\ [][NextCompile]_vars

(***************************************************************************)
(* Properties.                                                             *)
(***************************************************************************)
RelationKeys == {"childOrSibling", "childOrSiblingSelector"}
CompiledKeys == {"mask"} \cup RelationKeys
SelectorOps == {"GetElementBySelector", "Child", "Sibling", "ChildByText", "ChildByDescription"}
QueryOps == {"GetInfo", "Count", "WaitForExists", "GetText", "SetText", "ClearText"}
SwipeOps == {"SwipeUp", "SwipeDown", "SwipeLeft", "SwipeRight"}
InteractionOps == {"Click", "LongClick"} \cup SwipeOps
TextOps == {"GetText", "SetText", "ClearText"}
ActionMethods == {"click", "longClick", "swipe", "getText", "setText", "clearTextField"}
\* the RPC methods whose first parameter is the selector of the Element
SelectorMethods == {"objInfo", "count", "waitForExists", "childByText", "childByDescription",
                    "getText", "setText", "clearTextField"}

\* bit b of n
Bit(n, b) == (n \div (2 ^ b)) % 2 = 1
\* the number whose bits are those set in the code of some key of S
RECURSIVE OrOfCodes(_, _)
OrOfCodes(S, b) ==
  IF b > 24 THEN 0
  ELSE (IF \E k \in S : Bit(_MASK[k], b) THEN 2 ^ b ELSE 0) + OrOfCodes(S, b + 1)

\* a raw selector with a key outside the vocabulary
Foreign(selector) == \E k \in DOMAIN selector : k \notin DOMAIN _MASK

\* C1: a raw selector whose keys all belong to the vocabulary compiles without error;
\* the mask is the bitwise OR of the codes of exactly its keys (0 for the empty
\* selector), and two compilations of it give the same mask and the same key set.
C1_MaskIsOrOfCodes ==
  (DOMAIN craw \subseteq DOMAIN _MASK) =>
    \A i \in 1..Len(cres) :
      /\ Cardinality(DOMAIN _MASK) = 25
      /\ cres[i].err = NilErr
      /\ cres[i].res["mask"] = OrOfCodes(DOMAIN craw, 0)
      /\ DOMAIN cres[i].res = DOMAIN craw \cup CompiledKeys
      /\ \A j \in 1..Len(cres) :
           /\ cres[j].res["mask"] = cres[i].res["mask"]
           /\ DOMAIN cres[j].res = DOMAIN cres[i].res

C1_Witness ==
  /\ DOMAIN craw \subseteq DOMAIN _MASK
  /\ Cardinality(DOMAIN craw) = 2
  /\ Len(cres) = 2
  /\ cres[2].res["mask"] = 16777216 + 1

\* C2: a raw selector with a key outside the vocabulary never compiles: the compiler
\* returns the invalid-selector error whatever valid keys it also holds, and
\* GetElementBySelector, Child, Sibling, ChildByText and ChildByDescription called
\* with it return that error and no Element.
C2_ForeignKeyRejected ==
  Foreign(craw) =>
    /\ \A i \in 1..Len(cres) : cres[i].err = InvalidSelectorErr(craw)
    /\ last.op \in SelectorOps => (last.err = InvalidSelectorErr(craw) /\ ~last.elem)

C2_Witness ==
  /\ "__UID" \in DOMAIN craw
  /\ "text" \in DOMAIN craw
  /\ last.op = "ChildByText"
  /\ last.err.type = "errorString"

\* an RPC call that failed, or a waitForExists that reported false
RpcFailed(c) ==
  \/ c.resp.err # NilErr
  \/ (c.method = "waitForExists" /\ c.resp.result = FALSE)

NotFoundErr == UiaError(NotFoundCode, "Element not found")

\* C3: after a successful ChildByText or ChildByDescription with server result r the
\* selector of the Element is exactly {__UID: r}, and the query operation called
\* next sends the string r, not a map, as the selector parameter of its RPC calls.
C3_UidSelectorSentAsString ==
  /\ (last.op \in ChildByOps /\ last.err = NilErr) =>
       /\ DOMAIN ele.selector = {"__UID"}
       /\ ele.selector["__UID"] = last.rpcs[1].resp.result
  /\ (afterChildBy /\ last.op \in QueryOps) =>
       /\ Len(last.rpcs) >= 1
       /\ \A i \in 1..Len(last.rpcs) :
            /\ last.rpcs[i].params[1].kind = "string"
            /\ last.rpcs[i].params[1].val = ele.selector["__UID"]
            /\ last.rpcs[i].params[1].val = last.uidBefore

C3_Witness ==
  /\ afterChildBy
  /\ last.op = "GetText"
  /\ Len(last.rpcs) = 2
  /\ last.rpcs[2].params[1] = Param("string", "u2")

\* C4 as claimed: WaitForExists returns the not-found error when the call succeeds
\* with result false, and a different error, that of the call, when the call fails.
C4_NotFoundDistinctFromTransport ==
  last.op = "WaitForExists" =>
    /\ (last.rpcs[1].resp.err = NilErr /\ last.rpcs[1].resp.result = FALSE)
         => last.err = NotFoundErr
    /\ last.rpcs[1].resp.err # NilErr
         => (last.err = last.rpcs[1].resp.err /\ last.err # NotFoundErr)

\* C4 amended: WaitForExists returns the not-found error (code -32002) both when the
\* call succeeds with result false and when the call itself fails, and nil only when
\* the call succeeds with result true.
C4_NotFoundAlsoOnFailedCall ==
  last.op = "WaitForExists" =>
    /\ Len(last.rpcs) = 1
    /\ RpcFailed(last.rpcs[1]) => (last.err = NotFoundErr /\ last.err.code = 0 - 32002)
    /\ ~RpcFailed(last.rpcs[1]) => last.err = NilErr

C4_Witness ==
  /\ last.op = "WaitForExists"
  /\ last.rpcs[1].resp.err = PostErr
  /\ last.err = NotFoundErr

\* C8: once the selector of an Element is {__UID: id}, every RPC call that carries
\* the selector sends the bare string id, a further ChildByText or
\* ChildByDescription on the resolved Element included.
C8_UidAlwaysSentBare ==
  last.uidBefore # "none" =>
    \A i \in 1..Len(last.rpcs) :
      last.rpcs[i].method \in SelectorMethods =>
        /\ last.rpcs[i].params[1].kind = "string"
        /\ last.rpcs[i].params[1].val = last.uidBefore

\* C9: Click, LongClick, the four swipes, GetText, SetText and ClearText issue
\* waitForExists first; an RPC call that fails (or a waitForExists reporting false)
\* is the last call of the operation, which then returns an error; the action call
\* comes last, after calls that all succeeded.
C9_ChainAbortsOnFirstError ==
  last.op \in InteractionOps \cup TextOps =>
    /\ Len(last.rpcs) >= 1
    /\ last.rpcs[1].method = "waitForExists"
    /\ \A i \in 1..Len(last.rpcs) :
         /\ RpcFailed(last.rpcs[i]) => (i = Len(last.rpcs) /\ last.err # NilErr)
         /\ last.rpcs[i].method \in ActionMethods =>
              /\ i = Len(last.rpcs)
              /\ \A j \in 1..(i - 1) : ~RpcFailed(last.rpcs[j])

C9_Witness ==
  /\ last.op = "Click"
  /\ Len(last.rpcs) = 2
  /\ RpcFailed(last.rpcs[2])
  /\ last.err = PostErr

\* C10 as claimed: an operation issues at most one RPC call, at most two when it is
\* Click, LongClick or a swipe.
C10_AtMostTwoCalls ==
  Len(last.rpcs) <= (IF last.op \in InteractionOps THEN 2 ELSE 1)

\* C10 amended: an operation issues at most one RPC call, at most two when it is
\* GetText, SetText or ClearText (waitForExists, then the text call), and at most
\* three when it is Click, LongClick or a swipe (waitForExists, objInfo, then the
\* session-level call); no operation issues four or more.
C10_AtMostThreeCalls ==
  Len(last.rpcs) <= (IF last.op \in InteractionOps THEN 3
                     ELSE IF last.op \in TextOps THEN 2 ELSE 1)

C10_Witness ==
  /\ last.op = "Click"
  /\ Len(last.rpcs) = 3
  /\ last.rpcs[3].method = "click"

\* some iteration order of the keys of a map
AnOrder(S) == CHOOSE o \in Orders(S) : TRUE

\* the compilation of a raw selector of the vocabulary
Compiled(selector) == parseSelector(selector, AnOrder(DOMAIN selector)).res

\* a map without the keys of K
Without(f, K) == [k \in DOMAIN f \ K |-> f[k]]

\* C5: Eq(i) followed by Eq(j) on an Element created from a valid raw selector
\* leaves the original and the compiled selector that a single Eq(j) leaves on an
\* Element created from the same raw selector: instance is j and the mask holds
\* the instance bit.
C5_EqOverwritesInstance ==
  (pure /\ Len(eqs) >= 2) =>
    LET fresh  == GetElementBySelector(created, AnOrder(DOMAIN created)).ele
        j      == eqs[Len(eqs)]
        single == Eq(fresh, j, AnOrder(DOMAIN fresh.original \cup {"instance"})).ele
    IN /\ ele.original = single.original
       /\ ele.selector = single.selector
       /\ ele.original["instance"] = j
       /\ ele.selector["instance"] = j
       /\ Bit(ele.selector["mask"], 24)

C5_Witness ==
  /\ pure
  /\ eqs = <<0, 1>>
  /\ created = [text |-> 0, instance |-> 0]
  /\ ele.selector["instance"] = 1

\* C7 as claimed: the selector of the Element is the compilation of its original,
\* unless a ChildByText or ChildByDescription has succeeded on the Element, and
\* then it is {__UID: id}.
C7_SelectorIsCompiledOriginal ==
  ele.live =>
    IF everUid
    THEN DOMAIN ele.selector = {"__UID"} /\ ele.selector["__UID"] \in UIDs
    ELSE /\ DOMAIN ele.selector = DOMAIN Compiled(ele.original)
         /\ \A k \in DOMAIN ele.selector : ele.selector[k] = Compiled(ele.original)[k]

\* C7 amended: leaving aside the fields childOrSibling and childOrSiblingSelector
\* (the relation the latest Child or Sibling attached), the selector is the
\* compilation of the original, unless a ChildByText or ChildByDescription has
\* succeeded and no Eq was called since, and then it is {__UID: id}, id being the
\* result of the latest such lookup.
C7_SelectorIsCompiledOriginalUpToRelation ==
  ele.live =>
    LET core == Without(ele.selector, RelationKeys) IN
    IF uid # "none"
    THEN DOMAIN core = {"__UID"} /\ core["__UID"] = uid
    ELSE LET want == Without(Compiled(ele.original), RelationKeys) IN
         /\ DOMAIN core = DOMAIN want
         /\ \A k \in DOMAIN core : core[k] = want[k]

C7_Witness ==
  /\ ele.live
  /\ uid = "none"
  /\ everUid
  /\ last.op = "Sibling"
  /\ last.err = NilErr
  /\ ele.selector["childOrSibling"] = <<"sibling">>
  /\ ele.selector["instance"] = 1

\* half of s, rounded toward zero
Half(s) == IF s < 0 /\ s % 2 = 1 THEN (s + 1) \div 2 ELSE s \div 2

\* the rectangle GetRect takes from a decoded objInfo response
RectOf(info) == IF ~info.bounds.nil THEN info.bounds ELSE info.visibleBounds

\* the end point of a swipe of rectangle r from (cx, cy)
SwipeEnd(op, r, cx, cy) ==
  CASE op = "SwipeUp"    -> Position(cx, r.top)
    [] op = "SwipeDown"  -> Position(cx, r.bottom - 1)
    [] op = "SwipeLeft"  -> Position(r.left, cy)
    [] op = "SwipeRight" -> Position(r.right - 1, cy)

\* the swipe call of a swipe that reached it goes from the midpoint of r to the edge
SwipeVector(r) ==
  LET cx == Half(r.left + r.right)
      cy == Half(r.top + r.bottom)
  IN /\ last.rpcs[3].method = "swipe"
     /\ last.rpcs[3].params[1].val = Position(cx, cy)
     /\ last.rpcs[3].params[2].val = SwipeEnd(last.op, r, cx, cy)

\* the coordinates below which every int converts to float32 unchanged
Float32Exact == 16777216
Exact(r) ==
  \A c \in {r.left, r.top, r.right, r.bottom} : 0 - Float32Exact < c /\ c < Float32Exact

\* C6 as claimed: for every integer rectangle the server returns, the swipe call goes
\* from ((left+right)/2, (top+bottom)/2), in integer division, to (cx, top) for up,
\* (cx, bottom-1) for down, (left, cy) for left and (right-1, cy) for right.
C6_SwipeVectorAnyRect ==
  (last.op \in SwipeOps /\ Len(last.rpcs) = 3) =>
    SwipeVector(RectOf(last.rpcs[2].resp.result))

\* C6 amended: the same, for the rectangles whose coordinates are below 2^24 in
\* magnitude (the points are sent as float32, which holds such ints exactly), the
\* division truncating toward zero.
C6_SwipeVectorExactRect ==
  (last.op \in SwipeOps /\ Len(last.rpcs) = 3 /\ Exact(RectOf(last.rpcs[2].resp.result))) =>
    SwipeVector(RectOf(last.rpcs[2].resp.result))

C6_Witness ==
  /\ last.op = "SwipeRight"
  /\ Len(last.rpcs) = 3
  /\ last.rpcs[2].resp.result.bounds = Rect(10, 20, 30, 40)
  /\ last.rpcs[3].params[1].val = Position(20, 30)
  /\ last.rpcs[3].params[2].val = Position(29, 30)

====
